---- MODULE Spec2Model ----
(***************************************************************************)
(* Model of the ingestion pipeline of src/pipeline.ts: main() and its      *)
(* helpers loadMarkdownDocs, splitSection, chunkArray, withRetry and       *)
(* stableId, together with the embedding provider and the vector store it  *)
(* talks to.                                                               *)
(*                                                                         *)
(* Strings are sequences of one-character strings, so that trimming,       *)
(* concatenation, number formatting and extension parsing are computed.    *)
(***************************************************************************)
EXTENDS Integers, Sequences, FiniteSets, Bags, TLC

\* ------------------------------------------------------------------ bounds
\* Sections per file and splitter parts per section of the input directory.
MaxSections == 2
MaxParts == 2
\* pipeline.ts:17-18 set EMBED_BATCH = 128 and UPSERT_BATCH = 2000; the model
\* keeps their role and scales the sizes so that several batches occur.
EMBED_BATCH == 2
UPSERT_BATCH == 3

\* ------------------------------------------------------- program constants
Tries == 4
BackoffBase == 2000
BackoffCap == 15000

\* -------------------------------------------------------------------- state
VARIABLES
  dir,            \* the input directory (never written by the pipeline)
  store,          \* the vector store collection: a set of points, one per id
  second,         \* TRUE in the second run of main() over dir
  prev,           \* what the first run left behind (for comparing the runs)
  pc,             \* where main() stands
  docs,           \* loadMarkdownDocs' result
  sections,       \* MarkdownNodeParser's nodes
  si,             \* index of the next section of the chunking loop
  perFileSection, \* Map path -> last sectionIndex, as a set of <<key, value>>
  chunks,         \* the final chunk list
  vectors,        \* accumulated embedding vectors
  b,              \* index of the current embedding batch (1-based)
  allPoints,      \* points built from chunks and vectors
  ub,             \* index of the current upsert batch (1-based)
  upserted,       \* running count of upserted points
  attempt,        \* withRetry: attempt counter
  lastErr,        \* withRetry: last caught error
  inflight,       \* number of requests outstanding
  exitCode,       \* -1 while running, 0 normal return, 1 process.exit(1)
  err,            \* the error main() threw
  reported,       \* the count of the final log line, -1 when not logged
  calls,          \* calls made by the current withRetry invocation
  delays,         \* waits slept by the current withRetry invocation
  embedCalls,     \* requests sent to the embedding provider in this run
  upsertCalls,    \* requests sent to the vector store in this run
  embedFails,     \* embedding requests of this run that failed
  upsertFails,    \* upsert requests of this run that failed
  badResponse     \* a response with no data or a wrong vector count was seen

vars == <<dir, store, second, prev, pc, docs, sections, si, perFileSection,
          chunks, vectors, b, allPoints, ub, upserted, attempt, lastErr,
          inflight, exitCode, err, reported, calls, delays, embedCalls,
          upsertCalls, embedFails, upsertFails, badResponse>>

\* Errors: none, the two errors main() throws itself, and (ErrorOf, below) the
\* errors of failed requests.
NoError == [kind |-> "none"]
SizeMismatchError == [kind |-> "Embedding size mismatch"]
MisalignmentError == [kind |-> "Vector/chunk misalignment"]

\* ------------------------------------------------------------------ strings
WhiteSpace == {" ", "\n", "\t"}

RECURSIVE TrimStart(_)
TrimStart(s) ==
  IF s = <<>> THEN <<>>
  ELSE IF Head(s) \in WhiteSpace THEN TrimStart(Tail(s)) ELSE s

RECURSIVE TrimEnd(_)
TrimEnd(s) ==
  IF s = <<>> THEN <<>>
  ELSE IF s[Len(s)] \in WhiteSpace THEN TrimEnd(SubSeq(s, 1, Len(s) - 1)) ELSE s

\* String.prototype.trim
NoTrim(s) == s
Trim(s) == TrimEnd(TrimStart(s))

DigitChar == <<"0", "1", "2", "3", "4", "5", "6", "7", "8", "9">>

\* Number-to-string conversion of a template literal (decimal, no padding).
RECURSIVE NumToStr(_)
NumToStr(n) ==
  IF n < 10 THEN <<DigitChar[n + 1]>>
  ELSE NumToStr(n \div 10) \o <<DigitChar[(n % 10) + 1]>>

\* Index of the last "." of a file name, 0 when there is none.
LastDot(name) ==
  LET dots == {k \in 1..Len(name) : name[k] = "."}
  IN IF dots = {} THEN 0 ELSE CHOOSE k \in dots : \A j \in dots : j <= k

\* path.extname: from the last "." to the end; empty when the name has no "."
\* or only a leading one.
ExtName(name) ==
  IF LastDot(name) <= 1 THEN <<>> ELSE SubSeq(name, LastDot(name), Len(name))

\* path.parse(p).name: the base name without its extension.
ParseName(name) ==
  IF LastDot(name) <= 1 THEN name ELSE SubSeq(name, 1, LastDot(name) - 1)

MdExt == <<".", "m", "d">>

\* ------------------------------------------------------------------ helpers
BASE_NS == "6f1a73a1-8d1b-4c31-9b00-1c4c2e0f9b12"

\* uuid v5: a name-based hash under a namespace, taken to be collision free:
\* the id stands for the pair it hashes.
v5(name, ns) == [ns |-> ns, name |-> name]

\* The canonical string hashed by stableId.
CanonicalNoSection(payload) ==
  payload.path \o <<"|", "c">> \o NumToStr(payload.chunkIndex)

CanonicalName(payload) ==
  payload.path \o <<"|", "s">> \o NumToStr(payload.sectionIndex)
               \o <<"|", "c">> \o NumToStr(payload.chunkIndex)

ContentId(payload) == v5(CanonicalName(payload) \o payload.text, BASE_NS)
RunScopedId(payload) == v5(CanonicalName(payload), IF second THEN "random" ELSE BASE_NS)
stableId(payload) == v5(CanonicalName(payload), BASE_NS)

\* chunkArray(arr, size): consecutive slices of at most size items.
chunkArrayFloor(arr, size) ==
  [k \in 1..(Len(arr) \div size) |-> SubSeq(arr, (k - 1) * size + 1, k * size)]

chunkArrayWhole(arr, size) == IF arr = <<>> THEN <<>> ELSE <<arr>>

chunkArray(arr, size) ==
  [k \in 1..((Len(arr) + size - 1) \div size) |->
     SubSeq(arr, (k - 1) * size + 1,
            IF k * size < Len(arr) THEN k * size ELSE Len(arr))]

\* Math.min(2000 * 2 ** attempt, 15000)
RECURSIVE Pow2(_)
Pow2(n) == IF n = 0 THEN 1 ELSE 2 * Pow2(n - 1)
BackoffNoCap(n) == BackoffBase * Pow2(n)
BackoffWait(n) ==
  IF BackoffBase * Pow2(n) < BackoffCap
  THEN BackoffBase * Pow2(n) ELSE BackoffCap

SeqFilter(s, Keep(_)) ==
  LET F[k \in 0..Len(s)] ==
        IF k = 0 THEN <<>>
        ELSE IF Keep(s[k]) THEN Append(F[k - 1], s[k]) ELSE F[k - 1]
  IN F[Len(s)]

SeqMap(s, Op(_)) == [k \in 1..Len(s) |-> Op(s[k])]

RECURSIVE Flatten(_)
Flatten(ss) == IF ss = <<>> THEN <<>> ELSE Head(ss) \o Flatten(Tail(ss))

\* -------------------------------------------------------------------- input
\* Raw chunk texts the sentence splitter may hand back for a section: a
\* whitespace-only chunk and a chunk that needs trimming.
WS == <<" ">>
X == <<" ", "x">>
RawTexts == {WS, X}

SeqsUpTo(S, n) == UNION {[1..k -> S] : k \in 0..n}

\* What the splitter returns for one section: up to MaxParts raw chunks.
PartsChoices == SeqsUpTo(RawTexts, MaxParts)

N1 == <<"a", ".", "m", "d">>
N2 == <<"a", "|", "s", "1", ".", "m", "d">>
N3 == <<"a", ".", "m", "d", "|", "s", "1", "|", "c", "1">>
N4 == <<"d", ".", "m", "d">>

\* Contents of the first Markdown file: up to MaxSections sections, one of
\* which has an arbitrary splitter output, the others a single chunk. The
\* second Markdown file, when present, has one section of a single chunk
\* whose content equals that of chunks of the first file.
FileShapes ==
  {<<>>} \cup
  {[k \in 1..n |-> IF k = j THEN p ELSE <<X>>] :
     <<n, j, p>> \in {t \in (1..MaxSections) \X (1..MaxSections) \X PartsChoices :
                        t[2] <= t[1]}}

\* Entries that loadMarkdownDocs must skip: a file without the .md extension
\* and a directory whose name ends in .md.
Noise == {[name |-> N3, isFile |-> TRUE, sections |-> <<>>],
          [name |-> N4, isFile |-> FALSE, sections |-> <<>>]}

Directories ==
  {Noise \cup f1 \cup f2 :
     <<f1, f2>> \in
       ({{}} \cup {{[name |-> N1, isFile |-> TRUE, sections |-> s]} : s \in FileShapes})
       \X {{}, {[name |-> N2, isFile |-> TRUE, sections |-> <<<<X>>>>]}}}

\* ------------------------------------------------------------- initial state
NoPrev == [ran |-> FALSE]

\* Locals of a fresh invocation of main().
FreshRun ==
  /\ pc = "load"
  /\ docs = <<>>
  /\ sections = <<>>
  /\ si = 1
  /\ perFileSection = {}
  /\ chunks = <<>>
  /\ vectors = <<>>
  /\ b = 1
  /\ allPoints = <<>>
  /\ ub = 1
  /\ upserted = 0
  /\ attempt = 0
  /\ lastErr = NoError
  /\ inflight = 0
  /\ exitCode = -1
  /\ err = NoError
  /\ reported = -1
  /\ calls = 0
  /\ delays = <<>>
  /\ embedCalls = 0
  /\ upsertCalls = 0
  /\ embedFails = 0
  /\ upsertFails = 0
  /\ badResponse = FALSE

Init ==
  /\ dir \in Directories
  /\ store = {}
  /\ second = FALSE
  /\ prev = NoPrev
  /\ FreshRun

\* ------------------------------------------------------------------ loading
\* fs.readdir lists the entries in an order the file system chooses.
Listings(d) ==
  {f \in [1..Cardinality(d) -> d] : \A j, k \in 1..Cardinality(d) : f[j] = f[k] => j = k}

\* loadMarkdownDocs: one Document per regular file whose extension is .md, in
\* listing order. The text of a document is carried as the sections it
\* parses into.
IsMarkdownFile(entry) == entry.isFile /\ ExtName(entry.name) = MdExt

loadMarkdownDocs(entries) ==
  SeqMap(SeqFilter(entries, IsMarkdownFile),
         LAMBDA e : [path |-> e.name, sections |-> e.sections])

\* MarkdownNodeParser.getNodesFromDocuments: the sections of every document,
\* document by document, each carrying its document's metadata.
SectionNodes(ds) ==
  Flatten(SeqMap(ds, LAMBDA d : SeqMap(d.sections,
                                       LAMBDA ps : [path |-> d.path, parts |-> ps])))

\* ----------------------------------------------------------------- chunking
NonEmpty(t) == Len(t) > 0

\* splitSection: trim every chunk of the splitter, drop the empty ones.
splitSectionNoDrop(parts) == SeqMap(parts, Trim)
splitSection(parts) == SeqFilter(SeqMap(parts, Trim), NonEmpty)

MapGet(m, key) ==
  IF \E kv \in m : kv[1] = key THEN (CHOOSE kv \in m : kv[1] = key)[2] ELSE 0
MapSet(m, key, val) == {kv \in m : kv[1] # key} \cup {<<key, val>>}

\* (perFileSection.get(filePath) ?? 0) + 1
GlobalSectionIndex(m, filePath) == si
NextSectionIndex(m, filePath) == MapGet(m, filePath) + 1

\* c.text = `${fileName}||${raw}`, trimmed again
ChunkText(fileName, raw) == Trim(fileName \o <<"|", "|">> \o Trim(raw))

\* Body of the loop over the parts of one section (pipeline.ts 107-128): the
\* chunks pushed for it, numbered in split order.
SectionChunks(filePath, sectionIndex, parts) ==
  LET fileName == ParseName(filePath)
      nodes == [k \in 1..Len(parts) |->
                  [text |-> ChunkText(fileName, parts[k]),
                   path |-> filePath,
                   fileName |-> fileName,
                   sectionIndex |-> sectionIndex,
                   chunkIndex |-> k]]
  IN SeqFilter(nodes, LAMBDA c : Len(c.text) > 0)

\* ---------------------------------------------------------------- embedding
Texts == SeqMap(chunks, LAMBDA c : c.text)
TextBatches == chunkArray(Texts, EMBED_BATCH)

\* The provider's vector for one input string.
Embedding(text) == [emb |-> text]

\* Responses the provider may give to a request that does not fail: the
\* vectors of the inputs in order, or a body with no data, one vector short,
\* or one vector too many.
AlignedResponse(slice) == [hasData |-> TRUE, data |-> SeqMap(slice, Embedding)]
Responses(slice) ==
  {AlignedResponse(slice),
   [hasData |-> FALSE, data |-> <<>>],
   [hasData |-> TRUE, data |-> SubSeq(SeqMap(slice, Embedding), 1, Len(slice) - 1)],
   [hasData |-> TRUE, data |-> Append(SeqMap(slice, Embedding), Embedding(<<>>))]}

\* !res.data || res.data.length !== slice.length
NoDataOnly(res, slice) == ~res.hasData
ShortOnly(res, slice) == ~res.hasData \/ Len(res.data) < Len(slice)
SizeMismatch(res, slice) == ~res.hasData \/ Len(res.data) # Len(slice)

\* for (const d of res.data) vectors.push(d.embedding)
PushFront(vs, data) == data \o vs
PushFirstOnly(vs, data) == IF data = <<>> THEN vs ELSE Append(vs, data[1])
PushAll(vs, data) == vs \o data

\* ------------------------------------------------------------------- points
BuildPointsByPosition(cs, vs) ==
  [k \in 1..Len(cs) |->
     [id |-> stableId([cs[k] EXCEPT !.chunkIndex = k]),
      vector |-> IF k <= Len(vs) THEN vs[k] ELSE [undefined |-> TRUE],
      payload |-> cs[k]]]

\* main() lines 158-184
BuildPoints(cs, vs) ==
  [k \in 1..Len(cs) |->
     [id |-> stableId(cs[k]),
      vector |-> IF k <= Len(vs) THEN vs[k] ELSE [undefined |-> TRUE],
      payload |-> cs[k]]]

PointBatches == chunkArray(allPoints, UPSERT_BATCH)

Ids(points) == {points[k].id : k \in 1..Len(points)}

\* The store's upsert: a point replaces the record of the same id, if any; of
\* two points of one request with the same id the later one stays.
ReplaceCollection(st, points) == {points[k] : k \in 1..Len(points)}
Upsert(st, points) ==
  {r \in st : r.id \notin Ids(points)} \cup
  {points[k] : k \in {j \in 1..Len(points) :
                        \A l \in (j + 1)..Len(points) : points[l].id # points[j].id}}

StoreIds(st) == {r.id : r \in st}

\* ---------------------------------------------------------------- withRetry
\* The error a failed request raises.
ErrorOf(stage, batch, n) ==
  [kind |-> "request failed", stage |-> stage, batch |-> batch, attempt |-> n]

\* ------------------------------------------------------------------ actions
\* main() lines 85-89: load the documents; return when there are none.
Load ==
  /\ pc = "load"
  /\ \E listing \in Listings(dir) :
       /\ docs' = loadMarkdownDocs(listing)
       /\ IF docs' = <<>>
          THEN pc' = "exit" /\ exitCode' = 0
          ELSE pc' = "parse" /\ exitCode' = exitCode
  /\ UNCHANGED <<dir, store, second, prev, sections, si, perFileSection, chunks,
                 vectors, b, allPoints, ub, upserted, attempt, lastErr, inflight,
                 err, reported, calls, delays, embedCalls, upsertCalls,
                 badResponse,
                 embedFails, upsertFails>>

\* main() lines 92-97: split the documents into sections.
Parse ==
  /\ pc = "parse"
  /\ sections' = SectionNodes(docs)
  /\ pc' = "chunk"
  /\ UNCHANGED <<dir, store, second, prev, docs, si, perFileSection, chunks,
                 vectors, b, allPoints, ub, upserted, attempt, lastErr, inflight,
                 exitCode, err, reported, calls, delays, embedCalls, upsertCalls,
                 badResponse,
                 embedFails, upsertFails>>

\* main() lines 99-129, one iteration of the loop over the sections.
ChunkSection ==
  /\ pc = "chunk"
  /\ si <= Len(sections)
  /\ LET sec == sections[si]
         sectionIndex == NextSectionIndex(perFileSection, sec.path)
     IN /\ perFileSection' = MapSet(perFileSection, sec.path, sectionIndex)
        /\ chunks' = chunks \o SectionChunks(sec.path, sectionIndex,
                                             splitSection(sec.parts))
  /\ si' = si + 1
  /\ UNCHANGED <<dir, store, second, prev, pc, docs, sections, vectors, b,
                 allPoints, ub, upserted, attempt, lastErr, inflight, exitCode,
                 err, reported, calls, delays, embedCalls, upsertCalls,
                 badResponse,
                 embedFails, upsertFails>>

\* chunks.length === 0
NeverEmpty(cs) == FALSE
NoChunksProduced(cs) == Len(cs) = 0

\* main() lines 131-139: return when no chunk was produced, else start the
\* embedding loop.
EndChunking ==
  /\ pc = "chunk"
  /\ si > Len(sections)
  /\ IF NoChunksProduced(chunks)
     THEN pc' = "exit" /\ exitCode' = 0
     ELSE pc' = "embed" /\ exitCode' = exitCode
  /\ UNCHANGED <<dir, store, second, prev, docs, sections, si, perFileSection,
                 chunks, vectors, b, allPoints, ub, upserted, attempt, lastErr,
                 inflight, err, reported, calls, delays, embedCalls, upsertCalls,
                 badResponse,
                 embedFails, upsertFails>>

\* `await`: main() goes on only when the request it waits for has settled, so
\* a request is sent only when none is outstanding.
NoAwait(n) == TRUE
AwaitsPrevious(n) == n = 0

\* withRetry lines 69-71: the next attempt sends the request. The first
\* attempt of an invocation starts its counts afresh.
EmbedCall ==
  /\ pc = "embed"
  /\ AwaitsPrevious(inflight)
  /\ attempt < Tries
  /\ inflight' = inflight + 1
  /\ calls' = IF attempt = 0 THEN 1 ELSE calls + 1
  /\ delays' = IF attempt = 0 THEN <<>> ELSE delays
  /\ embedCalls' = embedCalls + 1
  /\ UNCHANGED <<dir, store, second, prev, pc, docs, sections, si,
                 perFileSection, chunks, vectors, b, allPoints, ub, upserted,
                 attempt, lastErr, exitCode, err, reported, upsertCalls,
                 badResponse,
                 embedFails, upsertFails>>

\* withRetry lines 72-80: the request failed; remember the error, sleep, count
\* the attempt, and rethrow the last error once the attempts are used up
\* (main().catch then exits with status 1).
FirstError(stage, batch, n) == ErrorOf(stage, batch, 1)
CaughtError(stage, batch, n) == ErrorOf(stage, batch, n)

ExhaustedLate(n) == ~(n < Tries + 1)
Exhausted(n) == ~(n < Tries)

EmbedFail ==
  /\ pc = "embed"
  /\ inflight > 0
  /\ inflight' = inflight - 1
  /\ lastErr' = CaughtError("embed", b, attempt + 1)
  /\ delays' = Append(delays, BackoffWait(attempt))
  /\ attempt' = attempt + 1
  /\ IF Exhausted(attempt')
     THEN pc' = "exit" /\ exitCode' = 1 /\ err' = lastErr'
     ELSE UNCHANGED <<pc, exitCode, err>>
  /\ embedFails' = embedFails + 1
  /\ UNCHANGED <<dir, store, second, prev, docs, sections, si, perFileSection,
                 chunks, vectors, b, allPoints, ub, upserted, reported, calls,
                 embedCalls, upsertCalls, badResponse,
                 upsertFails>>

\* main() lines 143-184: the request returned. A response without data or of
\* the wrong size is fatal; otherwise its vectors are appended, and after the
\* last batch the whole list is checked and the points are built.
\* badResponse records every response that has no data or the wrong size,
\* whether or not the check stops it.
EmbedReturn ==
  /\ pc = "embed"
  /\ inflight > 0
  /\ inflight' = inflight - 1
  /\ \E res \in Responses(TextBatches[b]) :
       IF SizeMismatch(res, TextBatches[b])
       THEN /\ badResponse' = TRUE
            /\ pc' = "exit" /\ exitCode' = 1 /\ err' = SizeMismatchError
            /\ UNCHANGED <<vectors, b, allPoints, attempt, lastErr>>
       ELSE /\ vectors' = PushAll(vectors, res.data)
            /\ b' = b + 1
            /\ attempt' = 0
            /\ lastErr' = NoError
            /\ badResponse' = (badResponse \/ Len(res.data) # Len(TextBatches[b]))
            /\ IF b' <= Len(TextBatches)
               THEN UNCHANGED <<pc, exitCode, err, allPoints>>
               ELSE IF Len(vectors') # Len(chunks)
                    THEN /\ pc' = "exit" /\ exitCode' = 1
                         /\ err' = MisalignmentError
                         /\ UNCHANGED allPoints
                    ELSE /\ pc' = "upsert"
                         /\ allPoints' = BuildPoints(chunks, vectors')
                         /\ UNCHANGED <<exitCode, err>>
  /\ UNCHANGED <<dir, store, second, prev, docs, sections, si, perFileSection,
                 chunks, ub, upserted, reported, calls, delays, embedCalls,
                 upsertCalls, embedFails, upsertFails>>

\* withRetry around vectorDB.upsert (line 190): send the request.
UpsertCall ==
  /\ pc = "upsert"
  /\ AwaitsPrevious(inflight)
  /\ attempt < Tries
  /\ inflight' = inflight + 1
  /\ calls' = IF attempt = 0 THEN 1 ELSE calls + 1
  /\ delays' = IF attempt = 0 THEN <<>> ELSE delays
  /\ upsertCalls' = upsertCalls + 1
  /\ UNCHANGED <<dir, store, second, prev, pc, docs, sections, si,
                 perFileSection, chunks, vectors, b, allPoints, ub, upserted,
                 attempt, lastErr, exitCode, err, reported, embedCalls,
                 badResponse,
                 embedFails, upsertFails>>

\* The upsert request failed; the store may or may not have applied it before
\* the failure was reported.
UpsertFail ==
  /\ pc = "upsert"
  /\ inflight > 0
  /\ inflight' = inflight - 1
  /\ \E applied \in BOOLEAN :
       store' = IF applied THEN Upsert(store, PointBatches[ub]) ELSE store
  /\ lastErr' = CaughtError("upsert", ub, attempt + 1)
  /\ delays' = Append(delays, BackoffWait(attempt))
  /\ attempt' = attempt + 1
  /\ IF Exhausted(attempt')
     THEN pc' = "exit" /\ exitCode' = 1 /\ err' = lastErr'
     ELSE UNCHANGED <<pc, exitCode, err>>
  /\ upsertFails' = upsertFails + 1
  /\ UNCHANGED <<dir, second, prev, docs, sections, si, perFileSection, chunks,
                 vectors, b, allPoints, ub, upserted, reported, calls,
                 embedCalls, upsertCalls, badResponse,
                 embedFails>>

\* main() lines 189-194: the upsert succeeded; count its points, go on to the
\* next batch, and log the total after the last one.
UpsertReturn ==
  /\ pc = "upsert"
  /\ inflight > 0
  /\ inflight' = inflight - 1
  /\ store' = Upsert(store, PointBatches[ub])
  /\ upserted' = upserted + Len(PointBatches[ub])
  /\ ub' = ub + 1
  /\ attempt' = 0
  /\ lastErr' = NoError
  /\ IF ub' <= Len(PointBatches)
     THEN UNCHANGED <<pc, exitCode, reported>>
     ELSE pc' = "exit" /\ exitCode' = 0 /\ reported' = upserted'
  /\ UNCHANGED <<dir, second, prev, docs, sections, si, perFileSection, chunks,
                 vectors, b, allPoints, err, calls, delays, embedCalls,
                 upsertCalls, embedFails, upsertFails, badResponse>>

\* The pipeline is started once more over directory d and the same store;
\* what the first run generated and left is kept for comparison.
Restart(d) ==
  /\ pc = "exit"
  /\ ~second
  /\ second' = TRUE
  /\ prev' = [ran |-> TRUE,
              ok |-> exitCode = 0,
              built |-> allPoints # <<>>,
              ids |-> SeqMap(allPoints, LAMBDA pt : pt.id),
              store |-> store]
  /\ pc' = "load"
  /\ docs' = <<>>
  /\ sections' = <<>>
  /\ si' = 1
  /\ perFileSection' = {}
  /\ chunks' = <<>>
  /\ vectors' = <<>>
  /\ b' = 1
  /\ allPoints' = <<>>
  /\ ub' = 1
  /\ upserted' = 0
  /\ attempt' = 0
  /\ lastErr' = NoError
  /\ inflight' = 0
  /\ exitCode' = -1
  /\ err' = NoError
  /\ reported' = -1
  /\ calls' = 0
  /\ delays' = <<>>
  /\ embedCalls' = 0
  /\ upsertCalls' = 0
  /\ embedFails' = 0
  /\ upsertFails' = 0
  /\ badResponse' = FALSE
  /\ dir' = d
  /\ UNCHANGED store

\* The second run goes over the unchanged directory.
Rerun == Restart(dir)

\* A reworded chunk: another text at the same place of the same section.
Y == <<"y", " ">>

\* The directories that differ from d in the wording of one non-empty chunk of
\* one Markdown file.
EditedDirs(d) ==
  {(d \ {e}) \cup {[e EXCEPT !.sections[k][j] = Y]} :
     <<e, k, j>> \in {t \in d \X (1..MaxSections) \X (1..MaxParts) :
                        /\ t[1].isFile /\ ExtName(t[1].name) = MdExt
                        /\ t[2] <= Len(t[1].sections)
                        /\ t[3] <= Len(t[1].sections[t[2]])
                        /\ t[1].sections[t[2]][t[3]] = X}}

\* The second run goes over the directory after one chunk was reworded.
RerunEdited == \E d \in EditedDirs(dir) : Restart(d)

Next ==
  \/ Load
  \/ Parse
  \/ ChunkSection
  \/ EndChunking
  \/ EmbedCall
  \/ EmbedFail
  \/ EmbedReturn
  \/ UpsertCall
  \/ UpsertFail
  \/ UpsertReturn
  \/ Rerun

Spec == Init /\ [][Next]_vars

\* The pipeline run twice with a rewording in between, with an embedding
\* provider whose requests do not fail (its responses may still be of the
\* wrong size); the store may fail as in Spec.
NextEdit ==
  \/ Load
  \/ Parse
  \/ ChunkSection
  \/ EndChunking
  \/ EmbedCall
  \/ EmbedReturn
  \/ UpsertCall
  \/ UpsertFail
  \/ UpsertReturn
  \/ RerunEdited

SpecEdit == Init /\ [][NextEdit]_vars

\* One run of the pipeline, started on the empty collection.
NextOnce ==
  \/ Load
  \/ Parse
  \/ ChunkSection
  \/ EndChunking
  \/ EmbedCall
  \/ EmbedFail
  \/ EmbedReturn
  \/ UpsertCall
  \/ UpsertFail
  \/ UpsertReturn

SpecOnce == Init /\ [][NextOnce]_vars

\* ------------------------------------------------------------------- claims
Range(f) == {f[k] : k \in DOMAIN f}
SeqToBag(f) == [x \in Range(f) |-> Cardinality({k \in DOMAIN f : f[k] = x})]

\* The Markdown files of the directory, i.e. the documents a run loads.
MdFiles == {e \in dir : e.isFile /\ ExtName(e.name) = MdExt}

\* The content of a chunk: its text without the "fileName||" prefix.
ContentOf(c) == SubSeq(c.text, Len(c.fileName) + 3, Len(c.text))

\* The chunking loop is over.
ChunkingDone == pc \in {"embed", "upsert"} \/ (pc = "exit" /\ sections # <<>>)

\* C1: once a response without data or with a vector count other than the
\* batch's text count has arrived, the run has aborted with exit status 1 and
\* has sent no upsert request, whichever batch it was.
C1_MismatchAbortsBeforeUpsert ==
  badResponse => /\ pc = "exit"
                 /\ exitCode = 1
                 /\ err = SizeMismatchError
                 /\ upsertCalls = 0
                 /\ allPoints = <<>>

\* A later batch mismatched after earlier batches had succeeded.
C1_Witness ==
  badResponse /\ b >= 2 /\ vectors # <<>> /\ pc = "exit" /\ upsertCalls = 0

\* C2: in a second run over the unchanged directory after a successful first
\* run, the store holds exactly the ids, and as many records, as the first
\* run left: every upsert of the second run overwrites.
C2_SecondRunAddsNoRecord ==
  (second /\ prev.ok) =>
     /\ StoreIds(store) = StoreIds(prev.store)
     /\ Cardinality(store) = Cardinality(prev.store)
     /\ Cardinality(store) = Cardinality(StoreIds(store))

\* Both runs succeeded, the second one after upserting several batches over
\* documents listed in the other order.
C2_Witness ==
  /\ second /\ prev.ok /\ pc = "exit" /\ exitCode = 0
  /\ upsertCalls >= 2
  /\ store # {}
  /\ SeqMap(allPoints, LAMBDA pt : pt.id) # prev.ids

\* C3: two runs over the same directory that both build their points generate
\* the same multiset of ids, whatever the listing order and however many
\* requests failed in either run.
C3_SameIdsAcrossRuns ==
  (second /\ prev.built /\ allPoints # <<>>) =>
     SeqToBag(SeqMap(allPoints, LAMBDA pt : pt.id)) = SeqToBag(prev.ids)

\* The second run built its points after retried embedding requests, in
\* another order than the first run.
C3_Witness ==
  /\ second /\ prev.built /\ allPoints # <<>>
  /\ embedCalls > Len(TextBatches)
  /\ SeqMap(allPoints, LAMBDA pt : pt.id) # prev.ids

\* C4: when the embedding stage has completed, there is one vector per chunk,
\* in chunk order: the vector of chunk i, and of point i, is the provider's
\* vector for chunk i's text.
C4_VectorsAlignedWithChunks ==
  (pc = "upsert" \/ allPoints # <<>>) =>
     /\ Len(vectors) = Len(chunks)
     /\ Len(allPoints) = Len(chunks)
     /\ \A k \in 1..Len(chunks) :
          /\ vectors[k] = Embedding(chunks[k].text)
          /\ allPoints[k].vector = Embedding(chunks[k].text)
          /\ allPoints[k].payload = chunks[k]

\* The stage completed over several batches with at least one failed attempt,
\* and the chunks do not all have the same text.
C4_Witness ==
  /\ pc = "upsert"
  /\ Len(TextBatches) >= 2
  /\ embedCalls > Len(TextBatches)
  /\ \E j, k \in 1..Len(chunks) : chunks[j].text # chunks[k].text

\* C5: within a run, distinct chunks have distinct (path, sectionIndex,
\* chunkIndex) triples, distinct canonical strings and distinct ids.
C5_DistinctIds ==
  /\ Cardinality({<<c.path, c.sectionIndex, c.chunkIndex>> : c \in Range(chunks)})
       = Len(chunks)
  /\ Cardinality({CanonicalName(c) : c \in Range(chunks)}) = Len(chunks)
  /\ Cardinality({stableId(c) : c \in Range(chunks)}) = Len(chunks)
  /\ Cardinality(Ids(allPoints)) = Len(allPoints)

\* Points of two files with the same content, and two points of one file in
\* different sections, were built.
C5_Witness ==
  /\ \E j, k \in 1..Len(allPoints) :
       /\ allPoints[j].payload.path # allPoints[k].payload.path
       /\ ContentOf(allPoints[j].payload) = ContentOf(allPoints[k].payload)
  /\ \E j, k \in 1..Len(allPoints) :
       /\ allPoints[j].payload.path = allPoints[k].payload.path
       /\ allPoints[j].payload.sectionIndex # allPoints[k].payload.sectionIndex
       /\ allPoints[j].payload.chunkIndex = allPoints[k].payload.chunkIndex

\* The chunkIndex values, in list order, of the chunks of one section.
IndexesOf(path, sectionIndex) ==
  SeqMap(SeqFilter(chunks, LAMBDA c : c.path = path /\ c.sectionIndex = sectionIndex),
         LAMBDA c : c.chunkIndex)

\* Number of chunks of a splitter output that are not empty once trimmed.
Survivors(parts) ==
  Cardinality({k \in 1..Len(parts) : TrimStart(parts[k]) # <<>>})

\* C6: the chunkIndex values of the chunks of a section are 1..N in list
\* order, N being the number of non-empty chunks the splitter produced for it.
C6_ChunkIndexDense ==
  /\ \A c \in Range(chunks) :
       LET ix == IndexesOf(c.path, c.sectionIndex)
       IN ix = [k \in 1..Len(ix) |-> k]
  /\ ChunkingDone =>
       \A e \in MdFiles : \A k \in 1..Len(e.sections) :
          Len(IndexesOf(e.name, k)) = Survivors(e.sections[k])

\* A section whose splitter output held a whitespace-only chunk before a
\* non-empty one reached the chunk list with the single index 1, and the
\* section before it, of the same file, has a chunk numbered 1 as well.
C6_Witness ==
  /\ ChunkingDone
  /\ \E e \in MdFiles :
       /\ Len(e.sections) = 2
       /\ e.sections[2] = <<WS, X>>
       /\ IndexesOf(e.name, 2) = <<1>>
       /\ IndexesOf(e.name, 1) = <<1>>

C8_NothingToDoExitsCleanly ==
  ((pc # "load" /\ docs = <<>>) \/ (pc \notin {"load", "parse", "chunk"} /\ chunks = <<>>))
     => /\ pc = "exit"
        /\ exitCode = 0
        /\ err = NoError
        /\ embedCalls = 0
        /\ upsertCalls = 0
        /\ inflight = 0
        /\ reported = -1

\* Documents were loaded and split, but every chunk was whitespace.
C8_Witness ==
  /\ pc = "exit" /\ exitCode = 0
  /\ docs # <<>>
  /\ sections # <<>>
  /\ chunks = <<>>

\* The batch the current withRetry invocation works on.
CurrentBatch(stage) == IF stage = "embed" THEN b ELSE ub

\* C9: an invocation of withRetry makes at most Tries = 4 calls; a successful
\* call is its last; when the fourth call has failed, the run exits with
\* status 1 and the error of that fourth call; every batch has the full budget.
C9_RetryBudget ==
  /\ calls <= Tries
  /\ attempt <= Tries
  /\ inflight > 0 => calls = attempt + 1
  /\ (inflight = 0 /\ attempt > 0 /\ err # SizeMismatchError) =>
        /\ calls = attempt
        /\ lastErr = ErrorOf(lastErr.stage, CurrentBatch(lastErr.stage), attempt)
  /\ (inflight = 0 /\ calls > 0 /\ (attempt = 0 \/ err = SizeMismatchError)) =>
        calls = Len(delays) + 1
  /\ (attempt = Tries) =>
        /\ pc = "exit" /\ exitCode = 1
        /\ err = lastErr
        /\ err.attempt = Tries
  /\ (pc = "exit" /\ err \notin {NoError, SizeMismatchError, MisalignmentError}) =>
        /\ exitCode = 1
        /\ calls = Tries
        /\ attempt = Tries

\* A batch used up its four attempts after an earlier batch had needed a
\* retry (more requests were sent than the last batch alone can account for).
C9_Witness ==
  /\ pc = "exit" /\ exitCode = 1
  /\ attempt = Tries
  /\ err = ErrorOf("embed", 2, Tries)
  /\ embedCalls > Tries + 1

\* The sections of a file that the chunking loop has gone through.
Processed(path) == Cardinality({k \in 1..(si - 1) : sections[k].path = path})

\* The k-th chunk of a splitter output that is not empty once trimmed.
Survivor(parts, k) == SeqFilter(SeqMap(parts, TrimStart), LAMBDA t : t # <<>>)[k]

\* C10: the section counter of a file counts that file's sections alone, from
\* 1, also those without a surviving chunk: after the loop it is the number
\* of sections of the file, and a chunk numbered (s, c) is the c-th surviving
\* chunk of the s-th section of its file.
C10_SectionIndexPerFile ==
  /\ pc \in {"chunk", "embed", "upsert"} =>
       \A e \in MdFiles : MapGet(perFileSection, e.name) = Processed(e.name)
  /\ ChunkingDone =>
       \A e \in MdFiles : MapGet(perFileSection, e.name) = Len(e.sections)
  /\ \A c \in Range(chunks) :
       \E e \in MdFiles :
          /\ e.name = c.path
          /\ c.sectionIndex \in 1..Len(e.sections)
          /\ c.chunkIndex \in 1..Survivors(e.sections[c.sectionIndex])
          /\ ContentOf(c) = TrimEnd(Survivor(e.sections[c.sectionIndex], c.chunkIndex))

\* Two files were chunked; the one listed second has two sections, the first
\* without surviving chunk, and its only chunks are numbered (2, 1), while
\* the file listed first has a chunk numbered (1, 1).
C10_Witness ==
  /\ ChunkingDone
  /\ Len(docs) = 2
  /\ Len(docs[2].sections) = 2
  /\ Survivors(docs[2].sections[1]) = 0
  /\ \E c \in Range(chunks) : c.path = docs[2].path /\ c.sectionIndex = 2 /\ c.chunkIndex = 1
  /\ \A c \in Range(chunks) : c.path = docs[2].path => c.sectionIndex = 2
  /\ \E c \in Range(chunks) : c.path = docs[1].path /\ c.sectionIndex = 1 /\ c.chunkIndex = 1

\* The store as this run found it.
StartStore == IF second THEN prev.store ELSE {}

\* The points of the upsert batches before batch n.
BatchesBefore(n) == UNION {Range(PointBatches[k]) : k \in 1..(n - 1)}

\* C11: the upsert batches that succeeded stay in the store, also when the run
\* stops afterwards; and a second run that succeeds after a first run that
\* failed leaves exactly one record per point of the run, the store an
\* uninterrupted successful run produces, also when the store had applied
\* requests it reported as failed.
C11_RerunConverges ==
  /\ allPoints # <<>> => BatchesBefore(ub) \subseteq store
  /\ (second /\ pc = "exit" /\ exitCode = 0 /\ allPoints # <<>>) =>
        /\ store = Range(allPoints)
        /\ Cardinality(store) = Len(allPoints)
        /\ Cardinality(StoreIds(store)) = Len(allPoints)
  /\ (second /\ pc = "exit" /\ exitCode = 0 /\ allPoints = <<>>) => store = {}

\* The first run failed after writing part of the points, the second one
\* succeeded after retried upsert requests and wrote several batches.
C11_Witness ==
  /\ second /\ ~prev.ok
  /\ prev.store # {}
  /\ pc = "exit" /\ exitCode = 0
  /\ Len(PointBatches) >= 2
  /\ prev.store # store
  /\ upsertFails > 0

\* C12 (under SpecEdit): the id of a chunk is the same whatever its text; a
\* second run after a rewording generates the ids of the first run, adds no
\* record to the store of a successful first run, and when it succeeds every
\* record carries the vector and the payload of the second run.
C12_IdIgnoresText ==
  /\ \A c \in Range(chunks) : stableId(c) = stableId([c EXCEPT !.text = <<>>])
  /\ (second /\ prev.built /\ allPoints # <<>>) =>
        SeqToBag(SeqMap(allPoints, LAMBDA pt : pt.id)) = SeqToBag(prev.ids)
  /\ (second /\ prev.ok) =>
        /\ StoreIds(store) = StoreIds(prev.store)
        /\ Cardinality(store) = Cardinality(prev.store)
  /\ (second /\ pc = "exit" /\ exitCode = 0 /\ allPoints # <<>>) =>
        store = Range(allPoints)

\* Both runs succeeded and the second replaced a record under its old id by
\* one with the new wording.
C12_Witness ==
  /\ second /\ prev.ok
  /\ pc = "exit" /\ exitCode = 0
  /\ store # prev.store
  /\ StoreIds(store) = StoreIds(prev.store)
  /\ \E r \in store : \E q \in prev.store :
       /\ r.id = q.id
       /\ r.vector # q.vector
       /\ ContentOf(r.payload) = <<"y">>
       /\ ContentOf(q.payload) = <<"x">>

\* What C13 says of the batches bs cut from list arr with batch size size.
WellBatched(arr, size, bs) ==
  /\ Flatten(bs) = arr
  /\ \A k \in 1..Len(bs) : Len(bs[k]) >= 1 /\ Len(bs[k]) <= size
  /\ \A k \in 1..(Len(bs) - 1) : Len(bs[k]) = size
  /\ Len(bs) * size >= Len(arr)
  /\ (Len(bs) - 1) * size < Len(arr) \/ (arr = <<>> /\ bs = <<>>)

\* C13: chunkArray cuts a list into consecutive slices that concatenate to the
\* list, all of the batch size but possibly the last, ceil(len/size) of them
\* (none for the empty list), for every batch size from 1 up; and a stage in
\* which no request failed has sent one request per batch.
C13_BatchesPartitionTheList ==
  /\ (inflight = 0 /\ attempt = 0 /\ (pc = "embed" \/ chunks = <<>>)) =>
        \A size \in 1..(Len(Texts) + 1) :
           WellBatched(Texts, size, chunkArray(Texts, size))
  /\ (pc = "upsert" /\ inflight = 0 /\ attempt = 0) =>
        \A size \in 1..(Len(allPoints) + 1) :
           WellBatched(allPoints, size, chunkArray(allPoints, size))
  /\ pc = "embed" => embedCalls = (b - 1) + embedFails + inflight
  /\ pc = "upsert" =>
        /\ embedCalls = Len(TextBatches) + embedFails
        /\ upsertCalls = (ub - 1) + upsertFails + inflight
  /\ (pc = "exit" /\ exitCode = 0 /\ allPoints # <<>>) =>
        /\ embedCalls = Len(TextBatches) + embedFails
        /\ upsertCalls = Len(PointBatches) + upsertFails

\* A run without any failed request ended after several embedding and upsert
\* batches, the last upsert batch being shorter than the first.
C13_Witness ==
  /\ pc = "exit" /\ exitCode = 0
  /\ embedFails = 0 /\ upsertFails = 0
  /\ Len(PointBatches) >= 2
  /\ Len(TextBatches) >= 2
  /\ Len(PointBatches[Len(PointBatches)]) < UPSERT_BATCH
  /\ embedCalls = Len(TextBatches)
  /\ upsertCalls = Len(PointBatches)

\* Number of items in the first n batches of bs.
RECURSIVE ItemsIn(_, _)
ItemsIn(bs, n) == IF n = 0 THEN 0 ELSE ItemsIn(bs, n - 1) + Len(bs[n])

\* C14: at most one request is outstanding at any time; while the request of
\* embedding batch b is prepared or outstanding, the batches before b have
\* returned and passed their count check and no upsert request was sent; an
\* upsert request is sent only after the last embedding batch, and the
\* request of upsert batch ub only after the batches before it succeeded.
C14_OneRequestAtATime ==
  /\ inflight <= 1
  /\ inflight = 1 => pc \in {"embed", "upsert"}
  /\ pc = "embed" =>
        /\ b <= Len(TextBatches)
        /\ Len(vectors) = ItemsIn(TextBatches, b - 1)
        /\ upsertCalls = 0
        /\ store = StartStore
  /\ upsertCalls > 0 =>
        /\ b = Len(TextBatches) + 1
        /\ Len(vectors) = Len(chunks)
  /\ pc = "upsert" =>
        /\ ub <= Len(PointBatches)
        /\ upserted = ItemsIn(PointBatches, ub - 1)

\* The request of the second upsert batch is outstanding, after an embedding
\* stage of several batches in which a request had failed.
C14_Witness ==
  /\ inflight = 1
  /\ pc = "upsert"
  /\ ub = 2
  /\ Len(TextBatches) >= 2
  /\ embedFails > 0

\* C15: a response of the wrong vector count is never retried. Once one has
\* been returned the run has stopped with the size error and no request is
\* outstanding; the embedding provider was called once for every accepted
\* batch, once for every failed request and once for the rejected response,
\* so neither that batch nor a later one was requested again; the rejected
\* response used up no attempt and caused no sleep: the attempts counted and
\* the sleeps taken are those of the failed requests before it.
C15_MismatchNeverRetried ==
  badResponse =>
     /\ pc = "exit"
     /\ err.kind = "Embedding size mismatch"
     /\ inflight = 0
     /\ b <= Len(TextBatches)
     /\ Len(vectors) = ItemsIn(TextBatches, b - 1)
     /\ embedCalls = (b - 1) + embedFails + 1
     /\ attempt < Tries
     /\ calls = attempt + 1
     /\ Len(delays) = attempt
     /\ lastErr \in {NoError} \cup {ErrorOf("embed", b, attempt)}
     /\ (attempt = 0) = (lastErr = NoError)

\* The first batch got a wrong-sized response on a retry, with a later batch
\* still to embed.
C15_Witness ==
  /\ badResponse
  /\ attempt > 0
  /\ b = 1
  /\ Len(TextBatches) >= 2
  /\ embedCalls = attempt + 1

\* C16: a batch that uses up its attempts ends the run with status 1 and no
\* count logged, nothing skipped and nothing rolled back. For an embedding
\* batch k: the batches before k were accepted, no later embedding request and
\* no upsert was sent, and the store is as the run found it. For an upsert
\* batch k: the batches before k are in the store, the requests sent are those
\* of batches 1..k, and the store holds nothing but what the run found and
\* the points of batches 1..k.
C16_ExhaustionHardFails ==
  /\ attempt = Tries =>
        /\ pc = "exit" /\ exitCode = 1
        /\ err.kind = "request failed"
        /\ reported = -1
        /\ inflight = 0
  /\ (pc = "exit" /\ err.kind = "request failed" /\ err.stage = "embed") =>
        /\ err.batch = b
        /\ b <= Len(TextBatches)
        /\ Len(vectors) = ItemsIn(TextBatches, b - 1)
        /\ embedCalls = (b - 1) + embedFails
        /\ upsertCalls = 0
        /\ allPoints = <<>>
        /\ store = StartStore
  /\ (pc = "exit" /\ err.kind = "request failed" /\ err.stage = "upsert") =>
        /\ err.batch = ub
        /\ ub <= Len(PointBatches)
        /\ BatchesBefore(ub) \subseteq store
        /\ upserted = ItemsIn(PointBatches, ub - 1)
        /\ upsertCalls = (ub - 1) + upsertFails
        /\ store \subseteq (StartStore \cup BatchesBefore(ub + 1))

\* The second upsert batch used up its attempts: the first batch is written,
\* and the store has grown since the start of the run.
C16_Witness ==
  /\ pc = "exit"
  /\ err = ErrorOf("upsert", 2, Tries)
  /\ ub = 2
  /\ upserted > 0
  /\ store # StartStore

\* C17: withRetry sleeps only between two attempts of the same call: a call
\* that has returned was preceded by one sleep fewer than the attempts made,
\* and a batch that used up its Tries = 4 attempts slept exactly 3 times.
C17_SleepsOnlyBetweenAttempts ==
  /\ Len(delays) <= Tries - 1
  /\ (inflight = 0 /\ calls > 0) => Len(delays) = calls - 1
  /\ attempt = Tries => Len(delays) = Tries - 1

\* The delay after the n-th failed attempt, by doubling: 2000 after the
\* first, then twice the one before, held at the cap.
RECURSIVE DoubledDelay(_)
DoubledDelay(n) ==
  IF n = 0 THEN BackoffBase
  ELSE IF 2 * DoubledDelay(n - 1) < BackoffCap
       THEN 2 * DoubledDelay(n - 1) ELSE BackoffCap

\* C18: the sleep after the n-th failed attempt of a call (n = 0, 1, 2, ...)
\* lasts min(2000 * 2^n, 15000) ms: 2000 first, doubled on each further
\* failure, never shorter than the one before and never above 15000.
C18_BackoffDoublesToCap ==
  /\ \A k \in 1..Len(delays) :
        /\ delays[k] = DoubledDelay(k - 1)
        /\ delays[k] >= BackoffBase
        /\ delays[k] <= BackoffCap
        /\ k > 1 => /\ delays[k - 1] <= delays[k]
                    /\ delays[k] \in {2 * delays[k - 1], BackoffCap}
  /\ Len(delays) = Tries =>
        \A n \in 0..(2 * Tries) :
           /\ BackoffWait(n) = DoubledDelay(n)
           /\ BackoffWait(n) <= BackoffWait(n + 1)
           /\ BackoffWait(n + 1) <= BackoffCap

\* A call failed often enough for the doubled delay to pass the cap.
C18_Witness ==
  /\ Len(delays) >= 4
  /\ delays[1] = 2000
  /\ delays[3] = 2 * delays[2]
  /\ delays[4] = BackoffCap
  /\ delays[4] < 2 * delays[3]

\* C19 as stated: at every point of a run the vectors and the points held in
\* memory number at most one batch.
C19_MemoryBoundedByOneBatch ==
  /\ Len(vectors) <= EMBED_BATCH
  /\ Len(allPoints) <= UPSERT_BATCH

\* C19, amended: one request carries at most one batch (EMBED_BATCH texts,
\* UPSERT_BATCH points), but the vectors and the points held in memory
\* accumulate over the whole corpus: never more than one per chunk, and one
\* vector and one point for every chunk during the whole upsert stage.
C19_MemoryBoundedByCorpus ==
  /\ \A k \in 1..Len(TextBatches) : Len(TextBatches[k]) <= EMBED_BATCH
  /\ \A k \in 1..Len(PointBatches) : Len(PointBatches[k]) <= UPSERT_BATCH
  /\ Len(vectors) <= Len(chunks)
  /\ Len(allPoints) <= Len(chunks)
  /\ pc = "upsert" =>
        /\ Len(vectors) = Len(chunks)
        /\ Len(allPoints) = Len(chunks)

\* While the second upsert batch is being sent, more vectors and more points
\* are held than one batch has.
C19_Witness ==
  /\ pc = "upsert"
  /\ ub = 2
  /\ Len(vectors) > EMBED_BATCH
  /\ Len(allPoints) > UPSERT_BATCH
  /\ Len(PointBatches[1]) = UPSERT_BATCH

\* The smaller of two numbers.
Min(x, y) == IF x < y THEN x ELSE y

\* C20: after every accepted embedding batch the accumulated vectors are as
\* many as the chunk texts of the batches gone through, so after the last
\* batch they are as many as the chunks, and the run never ends with the
\* 'Vector/chunk misalignment' error.
C20_MisalignmentUnreachable ==
  /\ pc \in {"embed", "upsert", "exit"} =>
        /\ Len(vectors) = Min((b - 1) * EMBED_BATCH, Len(chunks))
        /\ b = Len(TextBatches) + 1 => Len(vectors) = Len(chunks)
  /\ err # MisalignmentError
  /\ allPoints # <<>> => Len(vectors) = Len(chunks)

\* The batch loop has finished over several batches, the last one shorter
\* than a full batch, and the run went on to upsert.
C20_Witness ==
  /\ pc = "upsert"
  /\ Len(TextBatches) >= 2
  /\ Len(TextBatches[Len(TextBatches)]) < EMBED_BATCH
  /\ b = Len(TextBatches) + 1
  /\ allPoints # <<>>
  /\ embedFails > 0

====
